---- MODULE Spec2Model ----
(***************************************************************************)
(* A model of the uniswapx-service order repository                        *)
(* (src/lib/repositories/generic-orders-repository.ts) and of the order    *)
(* validator (src/lib/handlers/index.ts).                                  *)
(*                                                                         *)
(* Representation of the program's values:                                 *)
(*  - an order hash is a natural number (the hex digest read as a number); *)
(*  - a template literal `${a}_${b}` is the tuple <<a, b>> of its parts    *)
(*    (Join): '_' occurs in no address, status or chain id, so the joined  *)
(*    string and the tuple determine each other;                           *)
(*  - an index name `${index}-${sortKey}-all` is the tuple of its          *)
(*    '-'-separated segments, which is what split('-') recovers;           *)
(*  - an object is a function from its keys; Object.keys of a continuation *)
(*    key is kept as the sequence `keys` of the key record;                *)
(*  - an absent optional (undefined, '' or 0) has its own value per type:  *)
(*    NoCursor, limit 0, a key missing from DOMAIN queryFilters.           *)
(***************************************************************************)
EXTENDS Integers, Sequences, FiniteSets, TLC

VARIABLES
    orders,     \* the orders table: order hash -> stored item
    nonces,     \* the nonce table: <<offerer, chainId>> -> nonce
    calls,      \* in-flight updateOrderStatus calls: process -> local state
    lastOp,     \* the last step of a repository write operation and its outcome
    req,        \* getOrders: the request (limit, queryFilters, cursor);
                \* handler: the event and the injected request
    call,       \* getOrders: the store call it issued;
                \* handler: the repository call it made
    res,        \* getOrders: its result; handler: its response
    phase,      \* position of the getOrders caller or of the handler
    minted,     \* the formatted index of the query whose cursor is held
    seen,       \* order hashes returned by the pages of the current walk
    vin,        \* validator: the order and the clock readings
    vout        \* validator: the response

vars == <<orders, nonces, calls, lastOp, req, call, res, phase, minted, seen, vin, vout>>

(***************************************************************************)
(* Bounds of the model                                                     *)
(***************************************************************************)
MaxOrders == 4       \* orders in the table of the query specification
SmallLimit == 2      \* requested limits 0..SmallLimit are enumerated
LimitExcess == 1     \* requested limits up to MAX_ORDERS + LimitExcess

(***************************************************************************)
(* Program constants                                                       *)
(***************************************************************************)
MAX_ORDERS == 50

\* enum TABLE_KEY (lib/config/dynamodb): the attribute names of the table,
\* the composite attributes included.
TABLE_KEY ==
    { "orderHash", "offerer", "createdAt", "nonce", "encodedOrder", "signature",
      "sellToken", "orderStatus", "deadline", "filler", "txHash", "chainId",
      "chainId_filler", "chainId_orderStatus", "chainId_orderStatus_filler",
      "filler_offerer", "filler_orderStatus", "filler_offerer_orderStatus",
      "offerer_orderStatus" }

\* enum GET_QUERY_PARAMS restricted to the keys of queryFilters
Dimensions == { "offerer", "filler", "orderStatus", "chainId", "orderHash", "orderHashes", "sellToken" }
Modifiers == { "sortKey", "sort", "desc" }

\* enum SORT_FIELDS: the caller-selectable sort fields
SORT_FIELDS == { "createdAt", "deadline" }

NoCursor == <<>>
NoKey == [keys |-> <<>>]

Range(s) == { s[i] : i \in DOMAIN s }
Min(a, b) == IF a < b THEN a ELSE b

\* `${n}` for a chain id
NumStr(n) == CASE n = 1 -> "1" [] n = 5 -> "5" [] OTHER -> "n"

\* `${a}_${b}...`
Join(parts) == parts

(***************************************************************************)
(* The store collaborator: indexed range query (spec section 6)            *)
(***************************************************************************)
\* does the item's sort value satisfy the comparator
CmpOk(cmp, v) ==
    CASE cmp.operator = "none" -> TRUE
      [] cmp.operator = "eq" -> v = cmp.values[1]
      [] cmp.operator = "lt" -> v < cmp.values[1]
      [] cmp.operator = "lte" -> v <= cmp.values[1]
      [] cmp.operator = "gt" -> v > cmp.values[1]
      [] cmp.operator = "gte" -> v >= cmp.values[1]
      [] cmp.operator = "between" -> v >= cmp.values[1] /\ v <= cmp.values[2]
      [] OTHER -> FALSE

\* the hashes of the items the index holds under the partition key
IndexItems(tbl, index, pk, cmp) ==
    { h \in DOMAIN tbl :
        /\ index[1] \in DOMAIN tbl[h]
        /\ index[2] \in DOMAIN tbl[h]
        /\ tbl[h][index[1]] = pk
        /\ CmpOk(cmp, tbl[h][index[2]]) }

\* index order: by sort value, ties by primary key; reversed when rev
Before(tbl, sk, a, b, rev) ==
    LET lt == \/ tbl[a][sk] < tbl[b][sk]
              \/ tbl[a][sk] = tbl[b][sk] /\ a < b
    IN  IF rev THEN (a # b /\ ~lt) ELSE lt

RECURSIVE SortItems(_, _, _, _)
SortItems(S, tbl, sk, rev) ==
    IF S = {} THEN <<>>
    ELSE LET first == CHOOSE a \in S : \A b \in S \ {a} : Before(tbl, sk, a, b, rev)
         IN  <<first>> \o SortItems(S \ {first}, tbl, sk, rev)

\* the continuation key of an item of an index
ItemKey(tbl, index, h) ==
    [keys |-> <<"orderHash", index[1], index[2]>>,
     hash |-> h, pk |-> tbl[h][index[1]], sk |-> tbl[h][index[2]]]

\* is item h strictly after the start key in index order
AfterKey(tbl, sk, h, key, rev) ==
    LET gt == \/ tbl[h][sk] > key.sk
              \/ tbl[h][sk] = key.sk /\ h > key.hash
        lt == \/ tbl[h][sk] < key.sk
              \/ tbl[h][sk] = key.sk /\ h < key.hash
    IN  IF rev THEN lt ELSE gt

\* entity.query(partitionKey, options): a page of at most `limit` items in
\* index order from the start key on; LastEvaluatedKey is present when the
\* scan stopped at the limit.
StoreQuery(tbl, q) ==
    LET rev == q.hasReverse /\ q.reverse
        all == IndexItems(tbl, q.index, q.partitionKey, q.cmp)
        rest == IF q.startKey = NoKey THEN all
                ELSE { h \in all : AfterKey(tbl, q.index[2], h, q.startKey, rev) }
        sorted == SortItems(rest, tbl, q.index[2], rev)
        n == Min(q.limit, Len(sorted))
    IN  IF q.startKey # NoKey /\ Range(q.startKey.keys) # {"orderHash", q.index[1], q.index[2]}
        THEN [error |-> "StorageError", Items |-> <<>>, LastEvaluatedKey |-> NoKey]
        ELSE [error |-> "",
              Items |-> SubSeq(sorted, 1, n),
              LastEvaluatedKey |->
                  IF n > 0 /\ n = q.limit THEN ItemKey(tbl, q.index, sorted[n]) ELSE NoKey]

(***************************************************************************)
(* Cursor codec (lib/util/encryption, JSON)                                *)
(***************************************************************************)
\* JSON.stringify / JSON.parse of a continuation key
JSONstringify(key) == <<"json", key>>
JSONparse(s) ==
    IF Len(s) = 2 /\ s[1] = "json" THEN [ok |-> TRUE, value |-> s[2]] ELSE [ok |-> FALSE]

\* encode / decode: a reversible transform of the serialized text
encode(s) == <<"enc", s>>
decode(c) ==
    IF Len(c) = 2 /\ c[1] = "enc" THEN [ok |-> TRUE, value |-> c[2]] ELSE [ok |-> FALSE]

(***************************************************************************)
(* Comparator parser (lib/util/comparison)                                 *)
(***************************************************************************)
NoSort == <<>>
NoComparison == [operator |-> "none", values |-> <<>>]

\* parseComparisonFilter: `op(value[,value])` -> {operator, values}
parseComparisonFilter(sort) ==
    IF sort = NoSort THEN NoComparison
    ELSE [operator |-> sort[1], values |-> SubSeq(sort, 2, Len(sort))]

(***************************************************************************)
(* GenericOrdersRepository: reads                                          *)
(***************************************************************************)
NoCall == [kind |-> "none"]

InvalidQuery == [call |-> NoCall, status |-> "InvalidQuery", orders |-> <<>>, cursor |-> NoCursor]

\* getStartKey comparing only the number of keys, not their names
getStartKey_lengthOnly(cursor, index) ==
    LET decoded == decode(cursor)
        parsed == IF decoded.ok THEN JSONparse(decoded.value) ELSE [ok |-> FALSE]
    IN  IF ~parsed.ok THEN [ok |-> FALSE]
        ELSE LET lastEvaluatedKey == parsed.value
                 keys == lastEvaluatedKey.keys
                 validKeys == <<"orderHash">> \o SelectSeq(index, LAMBDA key : key \in TABLE_KEY)
             IN  IF Len(keys) # Len(validKeys)
                 THEN [ok |-> FALSE]
                 ELSE [ok |-> TRUE, key |-> lastEvaluatedKey]

\* getStartKey comparing the names of the keys, not their number
getStartKey_namesOnly(cursor, index) ==
    LET decoded == decode(cursor)
        parsed == IF decoded.ok THEN JSONparse(decoded.value) ELSE [ok |-> FALSE]
    IN  IF ~parsed.ok THEN [ok |-> FALSE]
        ELSE LET lastEvaluatedKey == parsed.value
                 keys == lastEvaluatedKey.keys
                 validKeys == <<"orderHash">> \o SelectSeq(index, LAMBDA key : key \in TABLE_KEY)
                 keysMatch == \A i \in DOMAIN keys : keys[i] \in Range(validKeys)
             IN  IF ~keysMatch
                 THEN [ok |-> FALSE]
                 ELSE [ok |-> TRUE, key |-> lastEvaluatedKey]

\* getStartKey(cursor, index): the decoded key, or the 'Invalid cursor.' error
getStartKey(cursor, index) ==
    LET decoded == decode(cursor)
        parsed == IF decoded.ok THEN JSONparse(decoded.value) ELSE [ok |-> FALSE]
    IN  IF ~parsed.ok THEN [ok |-> FALSE]
        ELSE LET lastEvaluatedKey == parsed.value
                 keys == lastEvaluatedKey.keys
                 validKeys == <<"orderHash">> \o SelectSeq(index, LAMBDA key : key \in TABLE_KEY)
                 keysMatch == \A i \in DOMAIN keys : keys[i] \in Range(validKeys)
             IN  IF Len(keys) # Len(validKeys) \/ ~keysMatch
                 THEN [ok |-> FALSE]
                 ELSE [ok |-> TRUE, key |-> lastEvaluatedKey]

\* the limit option without the ceiling
QueryLimit_unclamped(limit) == IF limit # 0 THEN limit ELSE MAX_ORDERS

\* the limit option of entity.query
QueryLimit(limit) == IF limit # 0 THEN Min(limit, MAX_ORDERS) ELSE MAX_ORDERS

\* the comparison and reverse options of entity.query: both are set only
\* when a sortKey and a parsed comparison are present
QueryDirection(sortKey, comparison, desc) ==
    IF sortKey # "" /\ comparison # NoComparison
    THEN [cmp |-> comparison, hasReverse |-> TRUE, reverse |-> desc]
    ELSE [cmp |-> NoComparison, hasReverse |-> FALSE, reverse |-> FALSE]

\* the cursor serialized but not encoded
ResultCursor_unencoded(lastEvaluatedKey) ==
    IF lastEvaluatedKey # NoKey THEN JSONstringify(lastEvaluatedKey) ELSE NoCursor

\* the cursor of a query result: present when the store returned a
\* LastEvaluatedKey
ResultCursor(lastEvaluatedKey) ==
    IF lastEvaluatedKey # NoKey THEN encode(JSONstringify(lastEvaluatedKey)) ELSE NoCursor

\* queryOrderEntity(partitionKey, index, limit, cursor, sortKey, sort, desc)
\* sortKey "" is undefined
queryOrderEntity(tbl, partitionKey, index, limit, cursor, sortKey, sort, desc) ==
    LET comparison == IF sortKey # "" THEN parseComparisonFilter(sort) ELSE NoComparison
        formattedIndex == <<index, IF sortKey # "" THEN sortKey ELSE "createdAt", "all">>
        dir == QueryDirection(sortKey, comparison, desc)
        start == IF cursor # NoCursor THEN getStartKey(cursor, formattedIndex)
                 ELSE [ok |-> TRUE, key |-> NoKey]
    IN  IF ~start.ok
        THEN [call |-> NoCall, status |-> "InvalidCursor", orders |-> <<>>,
              cursor |-> NoCursor, index |-> formattedIndex]
        ELSE LET q == [index |-> formattedIndex, partitionKey |-> partitionKey,
                       limit |-> QueryLimit(limit), cmp |-> dir.cmp,
                       hasReverse |-> dir.hasReverse, reverse |-> dir.reverse,
                       startKey |-> start.key]
                 queryResult == StoreQuery(tbl, q)
             IN  [call |-> [kind |-> "query", q |-> q,
                            truncated |-> queryResult.LastEvaluatedKey # NoKey],
                  status |-> IF queryResult.error # "" THEN queryResult.error ELSE "ok",
                  orders |-> queryResult.Items,
                  cursor |-> ResultCursor(queryResult.LastEvaluatedKey),
                  index |-> formattedIndex]

\* areParamsRequested matching any request that contains the template
areParamsRequested_subset(queryParams, requestedParams) ==
    \A i \in DOMAIN queryParams : queryParams[i] \in requestedParams

\* areParamsRequested(queryParams, requestedParams)
areParamsRequested(queryParams, requestedParams) ==
    /\ Cardinality(requestedParams) = Len(queryParams)
    /\ \A i \in DOMAIN queryParams : queryParams[i] \in requestedParams

\* getRequestedParams(queryFilters): Object.keys without the modifiers
getRequestedParams(queryFilters) == (DOMAIN queryFilters) \ Modifiers

\* queryFilters['sortKey'], queryFilters['sort'], queryFilters['desc'];
\* the default parameter value desc = true stands in for undefined
SortKeyOf(qf) == IF "sortKey" \in DOMAIN qf THEN qf["sortKey"] ELSE ""
SortOf(qf) == IF "sort" \in DOMAIN qf THEN qf["sort"] ELSE NoSort
DescOf(qf) == IF "desc" \in DOMAIN qf THEN qf["desc"] ELSE TRUE

\* getByHash(hash): entity.get
getByHash(tbl, hash) == IF hash \in DOMAIN tbl THEN <<hash>> ELSE <<>>

\* table.batchGet: the found items, in store order
batchGet(tbl, hashes) ==
    SortItems({ h \in Range(hashes) : h \in DOMAIN tbl /\ "createdAt" \in DOMAIN tbl[h] },
              tbl, "createdAt", FALSE)

\* the composite-index cases of getOrders, in the order of the switch:
\* <<queryParams, index, fields joined into the partition key>>
CompositeCases ==
    << <<<<"filler", "offerer", "orderStatus">>, "filler_offerer_orderStatus">>,
       <<<<"chainId", "filler">>, "chainId_filler">>,
       <<<<"chainId", "orderStatus">>, "chainId_orderStatus">>,
       <<<<"chainId", "orderStatus", "filler">>, "chainId_orderStatus_filler">>,
       <<<<"filler", "orderStatus">>, "filler_orderStatus">>,
       <<<<"filler", "offerer">>, "filler_offerer">>,
       <<<<"offerer", "orderStatus">>, "offerer_orderStatus">> >>

\* the single-attribute cases after the orderHash and orderHashes cases:
\* getByOfferer, getByOrderStatus, getByFiller, getByChainId
SingleCases == << "offerer", "orderStatus", "filler", "chainId" >>

\* `${queryFilters[f1]}_${queryFilters[f2]}...`
PartitionKeyOf(qf, fields) ==
    Join([i \in DOMAIN fields |->
            IF fields[i] = "chainId" THEN NumStr(qf[fields[i]]) ELSE qf[fields[i]]])

RECURSIVE FirstCase(_, _, _)
FirstCase(cases, requestedParams, i) ==
    IF i > Len(cases) THEN 0
    ELSE IF areParamsRequested(cases[i][1], requestedParams) THEN i
    ELSE FirstCase(cases, requestedParams, i + 1)

RECURSIVE FirstSingle(_, _)
FirstSingle(requestedParams, i) ==
    IF i > Len(SingleCases) THEN 0
    ELSE IF areParamsRequested(<<SingleCases[i]>>, requestedParams) THEN i
    ELSE FirstSingle(requestedParams, i + 1)

\* the orderHash case of the switch
IsOrderHashRequested(requestedParams) == "orderHash" \in requestedParams

\* the orderHashes case of the switch
IsOrderHashesRequested(requestedParams) == "orderHashes" \in requestedParams

\* getOrders(limit, queryFilters, cursor)
getOrders(tbl, limit, queryFilters, cursor) ==
    LET requestedParams == getRequestedParams(queryFilters)
        c == FirstCase(CompositeCases, requestedParams, 1)
        s == FirstSingle(requestedParams, 1)
    IN  IF c # 0
        THEN queryOrderEntity(tbl, PartitionKeyOf(queryFilters, CompositeCases[c][1]),
                              CompositeCases[c][2], limit, cursor,
                              SortKeyOf(queryFilters), SortOf(queryFilters), DescOf(queryFilters))
        ELSE IF IsOrderHashRequested(requestedParams)
        THEN [call |-> [kind |-> "get"], status |-> "ok",
              orders |-> getByHash(tbl, queryFilters["orderHash"]), cursor |-> NoCursor]
        ELSE IF IsOrderHashesRequested(requestedParams)
        THEN [call |-> [kind |-> "batchGet"], status |-> "ok",
              orders |-> batchGet(tbl, queryFilters["orderHashes"]), cursor |-> NoCursor]
        ELSE IF s # 0
        THEN queryOrderEntity(tbl, queryFilters[SingleCases[s]], SingleCases[s], limit, cursor,
                              SortKeyOf(queryFilters), SortOf(queryFilters), DescOf(queryFilters))
        ELSE InvalidQuery

(***************************************************************************)
(* GenericOrdersRepository: writes                                         *)
(***************************************************************************)
\* the item putOrderAndUpdateNonceTransaction puts: the order, its seven
\* composite attributes and createdAt
PutItem(order, now) ==
    [offerer_orderStatus |-> Join(<<order.offerer, order.orderStatus>>),
     filler_orderStatus |-> Join(<<order.filler, order.orderStatus>>),
     filler_offerer |-> Join(<<order.filler, order.offerer>>),
     chainId_filler |-> Join(<<NumStr(order.chainId), order.filler>>),
     chainId_orderStatus |-> Join(<<NumStr(order.chainId), order.orderStatus>>),
     chainId_orderStatus_filler |-> Join(<<NumStr(order.chainId), order.orderStatus, order.filler>>),
     filler_offerer_orderStatus |-> Join(<<order.filler, order.offerer, order.orderStatus>>),
     createdAt |-> now] @@ order

\* the key of the nonce record: `${order.offerer}-${order.chainId}`
NonceKey(order) == <<order.offerer, NumStr(order.chainId)>>

\* the tables after two separate writes, the second of which fails when the
\* call fails
putOrderThenUpdateNonce(tbl, nonceTbl, order, now, committed) ==
    [orders |-> (order.orderHash :> PutItem(order, now)) @@ tbl,
     nonces |-> IF committed THEN (NonceKey(order) :> order.nonce) @@ nonceTbl ELSE nonceTbl]

\* putOrderAndUpdateNonceTransaction(order): one table.transactWrite of the
\* order put and the nonce update; the store applies both when the
\* transaction commits and neither when it does not
putOrderAndUpdateNonceTransaction(tbl, nonceTbl, order, now, committed) ==
    IF committed
    THEN [orders |-> (order.orderHash :> PutItem(order, now)) @@ tbl,
          nonces |-> (NonceKey(order) :> order.nonce) @@ nonceTbl]
    ELSE [orders |-> tbl, nonces |-> nonceTbl]

\* a field of the item getByHash returned; the text `undefined` when the
\* item has no such attribute
FieldText(item, name) ==
    IF name \in DOMAIN item
    THEN (IF name = "chainId" THEN NumStr(item[name]) ELSE item[name])
    ELSE "undefined"

\* updateOrderStatus joining chainId_orderStatus_filler in the order of the
\* attribute chainId_filler
StatusUpdate_fillerFirst(orderHash, order, status, extras) ==
    extras @@
    [orderHash |-> orderHash,
     orderStatus |-> status,
     offerer_orderStatus |-> Join(<<FieldText(order, "offerer"), status>>),
     filler_orderStatus |-> Join(<<FieldText(order, "filler"), status>>),
     filler_offerer_orderStatus |->
         Join(<<FieldText(order, "filler"), FieldText(order, "offerer"), status>>),
     chainId_orderStatus |-> Join(<<FieldText(order, "chainId"), status>>),
     chainId_orderStatus_filler |->
         Join(<<FieldText(order, "chainId"), FieldText(order, "filler"), status>>)]

\* the attributes updateOrderStatus hands to entity.update
StatusUpdate(orderHash, order, status, extras) ==
    extras @@
    [orderHash |-> orderHash,
     orderStatus |-> status,
     offerer_orderStatus |-> Join(<<FieldText(order, "offerer"), status>>),
     filler_orderStatus |-> Join(<<FieldText(order, "filler"), status>>),
     filler_offerer_orderStatus |->
         Join(<<FieldText(order, "filler"), FieldText(order, "offerer"), status>>),
     chainId_orderStatus |-> Join(<<FieldText(order, "chainId"), status>>),
     chainId_orderStatus_filler |->
         Join(<<FieldText(order, "chainId"), status, FieldText(order, "filler")>>)]

\* entity.update: sets the attributes on the item of that key, creating the
\* item when the table has none
StoreUpdate(tbl, attrs) ==
    LET h == attrs.orderHash
    IN  (h :> (attrs @@ (IF h \in DOMAIN tbl THEN tbl[h] ELSE <<>>))) @@ tbl

\* deleteOrders(orderHashes): table.batchWrite of one delete per hash
deleteOrders(tbl, orderHashes) ==
    [h \in (DOMAIN tbl) \ orderHashes |-> tbl[h]]

(***************************************************************************)
(* The getOrders specification: one request against a populated table,     *)
(* followed page by page with the returned cursor, or replayed against     *)
(* another index.                                                          *)
(***************************************************************************)
\* the orders of the table: all but the last share offerer, filler, status
\* and chain; creation times tie pairwise
SampleOrder(h) ==
    [orderHash |-> h,
     offerer |-> IF h < MaxOrders THEN "A" ELSE "B",
     filler |-> IF h < MaxOrders THEN "F" ELSE "G",
     orderStatus |-> IF h < MaxOrders THEN "open" ELSE "filled",
     chainId |-> IF h < MaxOrders THEN 1 ELSE 5,
     nonce |-> h,
     deadline |-> MaxOrders + 1 - h,
     encodedOrder |-> "0xorder",
     signature |-> "0xsig"]

SampleTable == [h \in 1..MaxOrders |-> PutItem(SampleOrder(h), 1 + (h \div 2))]

Limits == (0..SmallLimit) \cup ((MAX_ORDERS - 1)..(MAX_ORDERS + LimitExcess))

\* sort expressions the comparator parser accepts
Sorts == { <<"gt", 1>> }

\* the value a request gives a dimension, in two variants
DimValue(k, v) ==
    CASE k = "offerer" -> IF v = 1 THEN "A" ELSE "B"
      [] k = "filler" -> IF v = 1 THEN "F" ELSE "G"
      [] k = "orderStatus" -> IF v = 1 THEN "open" ELSE "filled"
      [] k = "chainId" -> IF v = 1 THEN 1 ELSE 5
      [] k = "orderHash" -> IF v = 1 THEN 1 ELSE MaxOrders + 1
      [] k = "orderHashes" -> IF v = 1 THEN <<2, 1>> ELSE <<MaxOrders + 1>>
      [] OTHER -> "0xtoken"

\* queryFilters: dimensions K with variant v, sortKey sk ("" absent),
\* sort so (NoSort absent), desc d (0 absent, 1 true, 2 false)
Filters(K, v, sk, so, d) ==
    [k \in K |-> DimValue(k, v)]
      @@ (IF sk # "" THEN "sortKey" :> sk ELSE <<>>)
      @@ (IF so # NoSort THEN "sort" :> so ELSE <<>>)
      @@ (IF d # 0 THEN "desc" :> (d = 1) ELSE <<>>)

Requests ==
    { [limit |-> l, queryFilters |-> Filters(K, v, sk, so, d), cursor |-> NoCursor] :
        l \in Limits, K \in SUBSET Dimensions, v \in 1..2,
        sk \in SORT_FIELDS \cup {""}, so \in Sorts \cup {NoSort}, d \in 0..2 }

\* the query sets the router maps to an index
TemplateSets ==
    { Range(CompositeCases[i][1]) : i \in DOMAIN CompositeCases }
      \cup { {SingleCases[i]} : i \in DOMAIN SingleCases }

NoResult == [call |-> NoCall, status |-> "", orders |-> <<>>, cursor |-> NoCursor]
NoRequest == [limit |-> 0, queryFilters |-> <<>>, cursor |-> NoCursor]
NoOp == [op |-> "none", ok |-> TRUE]
NoIndex == <<>>

QueryInit ==
    /\ orders = SampleTable
    /\ nonces = <<>>
    /\ calls = <<>>
    /\ lastOp = NoOp
    /\ req \in Requests
    /\ call = NoCall
    /\ res = NoResult
    /\ phase = "ready"
    /\ minted = NoIndex
    /\ seen = <<>>
    /\ vin = <<>>
    /\ vout = <<>>

\* the caller invokes getOrders(req.limit, req.queryFilters, req.cursor)
Invoke(r, nextPhase) ==
    LET result == getOrders(orders, r.limit, r.queryFilters, r.cursor)
    IN  /\ req' = r
        /\ res' = result
        /\ call' = result.call
        /\ phase' = nextPhase
        /\ minted' = IF nextPhase = "done" /\ result.cursor # NoCursor
                     THEN result.index ELSE minted
        /\ seen' = IF nextPhase = "replayed" THEN seen ELSE seen \o result.orders
        /\ UNCHANGED <<orders, nonces, calls, lastOp, vin, vout>>

\* the first page
GetOrders ==
    /\ phase = "ready"
    /\ Invoke(req, "done")

\* the same query again, with the cursor of the page before
NextPage ==
    /\ phase = "done"
    /\ res.cursor # NoCursor
    /\ Invoke([req EXCEPT !.cursor = res.cursor], "done")

\* the returned cursor handed to a query for a template's index
ReplayCursor ==
    /\ phase = "done"
    /\ res.cursor # NoCursor
    /\ \E K \in TemplateSets, sk \in SORT_FIELDS \cup {""} :
          Invoke([limit |-> req.limit, queryFilters |-> Filters(K, 1, sk, NoSort, 0),
                  cursor |-> res.cursor], "replayed")

QueryNext == GetOrders \/ NextPage \/ ReplayCursor

QuerySpec == QueryInit /\ [][QueryNext]_vars

(***************************************************************************)
(* Properties of getOrders                                                 *)
(***************************************************************************)
\* the supported dimension sets and their indexes, as the specification
\* lists them
Templates ==
    { [dims |-> {"filler", "offerer", "orderStatus"}, index |-> "filler_offerer_orderStatus"],
      [dims |-> {"chainId", "filler"}, index |-> "chainId_filler"],
      [dims |-> {"chainId", "orderStatus"}, index |-> "chainId_orderStatus"],
      [dims |-> {"chainId", "orderStatus", "filler"}, index |-> "chainId_orderStatus_filler"],
      [dims |-> {"filler", "orderStatus"}, index |-> "filler_orderStatus"],
      [dims |-> {"filler", "offerer"}, index |-> "filler_offerer"],
      [dims |-> {"offerer", "orderStatus"}, index |-> "offerer_orderStatus"],
      [dims |-> {"offerer"}, index |-> "offerer"],
      [dims |-> {"orderStatus"}, index |-> "orderStatus"],
      [dims |-> {"filler"}, index |-> "filler"],
      [dims |-> {"chainId"}, index |-> "chainId"] }

SupportedSets == { t.dims : t \in Templates } \cup { {"orderHash"}, {"orderHashes"} }

Requested == (DOMAIN req.queryFilters) \ {"sortKey", "sort", "desc"}

Answered == phase \in {"done", "replayed"}

QueriesIndex(name) == call.kind = "query" /\ call.q.index[1] = name

\* C1: a request naming exactly a template's dimensions queries that
\* template's index, and a request naming any other set (a strict subset or
\* superset among them) never queries it.
C1_ExactSetRouting ==
    Answered =>
        \A t \in Templates :
            /\ Requested = t.dims =>
                  /\ res.status \in {"ok", "InvalidCursor"}
                  /\ res.index[1] = t.index
                  /\ res.status = "ok" => QueriesIndex(t.index)
            /\ Requested # t.dims => ~QueriesIndex(t.index)

C1_Witness ==
    /\ phase = "done"
    /\ Requested = {"filler", "offerer", "orderStatus"}
    /\ QueriesIndex("filler_offerer_orderStatus")
    /\ Len(res.orders) > 0

\* C2: a request whose dimension set is not one of the supported sets fails
\* with the invalid-query error and issues no store read.
C2_UnsupportedSetFails ==
    (Answered /\ Requested \notin SupportedSets) =>
        /\ res.status = "InvalidQuery"
        /\ call.kind = "none"

\* C3: a cursor returned by a query on one index is rejected with the
\* invalid-cursor error, before any store read, by a query that resolves to
\* a different index.
C3_ForeignCursorRejected ==
    (phase = "replayed" /\ "index" \in DOMAIN res /\ res.index # minted) =>
        /\ res.status = "InvalidCursor"
        /\ call.kind = "none"

C3_Witness ==
    /\ phase = "replayed"
    /\ "index" \in DOMAIN res
    /\ res.index # minted
    /\ res.index[1] = minted[1]
    /\ res.status = "InvalidCursor"

\* the orders a request's filters select, by their primary fields
Matching ==
    { h \in DOMAIN orders :
        /\ \A k \in Requested : orders[h][k] = req.queryFilters[k]
        /\ ({"sortKey", "sort"} \subseteq DOMAIN req.queryFilters) =>
              CmpOk(parseComparisonFilter(req.queryFilters["sort"]),
                    orders[h][req.queryFilters["sortKey"]]) }

NoDuplicates(s) == \A i, j \in DOMAIN s : s[i] = s[j] => i = j

\* C4: a result carries a cursor exactly when the store reported a
\* truncated scan, and following the cursors to the end yields every order
\* of the matching partition exactly once.
C4_CursorPagination ==
    (phase = "done") =>
        /\ (res.cursor # NoCursor) <=> (call.kind = "query" /\ call.truncated)
        /\ "index" \in DOMAIN res => res.status = "ok"
        /\ call.kind = "query" =>
              /\ NoDuplicates(seen)
              /\ Range(seen) \subseteq Matching
              /\ (res.status = "ok" /\ res.cursor = NoCursor) => Range(seen) = Matching

C4_Witness ==
    /\ phase = "done"
    /\ call.kind = "query"
    /\ req.cursor # NoCursor
    /\ res.cursor = NoCursor
    /\ Len(seen) >= 3
    /\ Range(seen) = Matching

\* C5: the limit of an index query is min(requested, 50); a requested limit
\* of 0 (or none) gives 50.
C5_LimitClamped ==
    (Answered /\ call.kind = "query") =>
        /\ call.q.limit <= 50
        /\ req.limit = 0 => call.q.limit = 50
        /\ (req.limit # 0 /\ req.limit <= 50) => call.q.limit = req.limit
        /\ req.limit > 50 => call.q.limit = 50

C5_Witness ==
    /\ phase = "done"
    /\ call.kind = "query"
    /\ req.limit > 50
    /\ call.q.limit = 50

\* C6: every index query scans in the direction desc gives, descending when
\* desc is absent, with or without a sortKey or a sort comparator.
C6_ScanDirection ==
    (Answered /\ call.kind = "query") =>
        LET desc == IF "desc" \in DOMAIN req.queryFilters THEN req.queryFilters["desc"] ELSE TRUE
        IN  (call.q.hasReverse /\ call.q.reverse) <=> desc

(***************************************************************************)
(* OrderValidator (src/lib/handlers/index.ts)                              *)
(*                                                                         *)
(* A BigNumber is the pair <<hi, lo>> standing for hi * 2^256 + lo with    *)
(* 0 <= lo < 2^256: <<1, 0>> is 2^256 and <<-1, lo>> is negative.          *)
(***************************************************************************)
ONE_YEAR_IN_SECONDS == 60 * 60 * 24 * 365
DefaultMinOffset == 60

MaxTick == 1         \* the clock advances at most MaxTick between two readings
MaxOutputs == 2      \* outputs per order

Valid == [valid |-> TRUE]
Invalid(errorString) == [valid |-> FALSE, errorString |-> errorString]

\* BigNumber gte(0), lt(2^256), gt
BigGte0(v) == v[1] >= 0
BigLt2p256(v) == v[1] < 1
BigGt(a, b) == a[1] > b[1] \/ (a[1] = b[1] /\ a[2] > b[2])

\* FieldValidator (handlers/field-validator): the Joi error of a value, ""
\* when it validates
EthAddressError(address) == IF address = "0xaddress" THEN "" ELSE "invalid address"
NonceError(nonce) == IF BigGte0(nonce) THEN "" ELSE "invalid nonce"
OrderHashError(orderHash) == IF orderHash = "0xhash" THEN "" ELSE "invalid hash"

\* isValidUint256(value)
isValidUint256(value) == BigGte0(value) /\ BigLt2p256(value)

\* validateDeadline with the bounds of the two tests exchanged in strictness
validateDeadline_strict(deadline, now1, now2, minOffset) ==
    IF deadline <= now1 + minOffset
    THEN Invalid(<<"Insufficient Deadline">>)
    ELSE IF deadline >= now2 + ONE_YEAR_IN_SECONDS
    THEN Invalid(<<"Deadline field invalid: Order expiry cannot be larger than one year">>)
    ELSE Valid

\* validateDeadline(deadline): now1 and now2 are the two readings of
\* getCurrentTime()
validateDeadline(deadline, now1, now2, minOffset) ==
    IF deadline < now1 + minOffset
    THEN Invalid(<<"Insufficient Deadline">>)
    ELSE IF deadline > now2 + ONE_YEAR_IN_SECONDS
    THEN Invalid(<<"Deadline field invalid: Order expiry cannot be larger than one year">>)
    ELSE Valid

\* validateStartTime(startTime, deadline)
validateStartTime(startTime, deadline) ==
    IF startTime > deadline THEN Invalid(<<"Invalid startTime: startTime > deadline">>) ELSE Valid

\* validateNonce(nonce)
validateNonce(nonce) ==
    IF NonceError(nonce) # "" THEN Invalid(<<"Invalid nonce", NonceError(nonce)>>) ELSE Valid

\* validateOfferer(offerer)
validateOfferer(offerer) ==
    IF EthAddressError(offerer) # "" THEN Invalid(<<"Invalid offerer", EthAddressError(offerer)>>)
    ELSE Valid

\* validateReactor(reactor)
validateReactor(reactor) ==
    IF EthAddressError(reactor) # "" THEN Invalid(<<"Invalid reactor", EthAddressError(reactor)>>)
    ELSE Valid

\* validateInputToken(token)
validateInputToken(token) ==
    IF EthAddressError(token) # "" THEN Invalid(<<"Invalid input token", EthAddressError(token)>>)
    ELSE Valid

\* validateInputAmount(amount)
validateInputAmount(amount) ==
    IF ~isValidUint256(amount) THEN Invalid(<<"Invalid input amount", amount>>) ELSE Valid

\* the body of the loop of validateOutputs for one output
validateOutput(output) ==
    IF EthAddressError(output.token) # ""
    THEN Invalid(<<"Invalid output token", output.token>>)
    ELSE IF EthAddressError(output.recipient) # ""
    THEN Invalid(<<"Invalid recipient", output.recipient>>)
    ELSE IF ~isValidUint256(output.startAmount)
    THEN Invalid(<<"Invalid startAmount", output.startAmount>>)
    ELSE IF ~isValidUint256(output.endAmount)
    THEN Invalid(<<"Invalid endAmount", output.endAmount>>)
    ELSE IF BigGt(output.endAmount, output.startAmount)
    THEN Invalid(<<"Invalid endAmount > startAmount">>)
    ELSE Valid

\* validateOutputs walking the list from its end
RECURSIVE validateOutputs_fromLast(_)
validateOutputs_fromLast(dutchOutputs) ==
    IF dutchOutputs = <<>> THEN Valid
    ELSE IF ~validateOutput(dutchOutputs[Len(dutchOutputs)]).valid
    THEN validateOutput(dutchOutputs[Len(dutchOutputs)])
    ELSE validateOutputs_fromLast(SubSeq(dutchOutputs, 1, Len(dutchOutputs) - 1))

\* validateOutputs(dutchOutputs)
RECURSIVE validateOutputs(_)
validateOutputs(dutchOutputs) ==
    IF dutchOutputs = <<>> THEN Valid
    ELSE IF ~validateOutput(Head(dutchOutputs)).valid
    THEN validateOutput(Head(dutchOutputs))
    ELSE validateOutputs(Tail(dutchOutputs))

\* validateHash(orderHash)
validateHash(orderHash) ==
    IF OrderHashError(orderHash) # "" THEN Invalid(<<"Invalid orderHash", OrderHashError(orderHash)>>)
    ELSE Valid

\* validate with the nonce check ahead of the startTime check
validate_nonceFirst(order, now1, now2, minOffset) ==
    IF ~validateDeadline(order.deadline, now1, now2, minOffset).valid
    THEN validateDeadline(order.deadline, now1, now2, minOffset)
    ELSE IF ~validateNonce(order.nonce).valid
    THEN validateNonce(order.nonce)
    ELSE IF ~validateStartTime(order.startTime, order.deadline).valid
    THEN validateStartTime(order.startTime, order.deadline)
    ELSE IF ~validateOfferer(order.offerer).valid
    THEN validateOfferer(order.offerer)
    ELSE IF ~validateReactor(order.reactor).valid
    THEN validateReactor(order.reactor)
    ELSE IF ~validateInputToken(order.input.token).valid
    THEN validateInputToken(order.input.token)
    ELSE IF ~validateInputAmount(order.input.amount).valid
    THEN validateInputAmount(order.input.amount)
    ELSE IF ~validateOutputs(order.outputs).valid
    THEN validateOutputs(order.outputs)
    ELSE IF ~validateHash(order.hash).valid
    THEN validateHash(order.hash)
    ELSE Valid

\* validate(order); order.info and order.hash() are flattened into `order`
validate(order, now1, now2, minOffset) ==
    IF ~validateDeadline(order.deadline, now1, now2, minOffset).valid
    THEN validateDeadline(order.deadline, now1, now2, minOffset)
    ELSE IF ~validateStartTime(order.startTime, order.deadline).valid
    THEN validateStartTime(order.startTime, order.deadline)
    ELSE IF ~validateNonce(order.nonce).valid
    THEN validateNonce(order.nonce)
    ELSE IF ~validateOfferer(order.offerer).valid
    THEN validateOfferer(order.offerer)
    ELSE IF ~validateReactor(order.reactor).valid
    THEN validateReactor(order.reactor)
    ELSE IF ~validateInputToken(order.input.token).valid
    THEN validateInputToken(order.input.token)
    ELSE IF ~validateInputAmount(order.input.amount).valid
    THEN validateInputAmount(order.input.amount)
    ELSE IF ~validateOutputs(order.outputs).valid
    THEN validateOutputs(order.outputs)
    ELSE IF ~validateHash(order.hash).valid
    THEN validateHash(order.hash)
    ELSE Valid

(***************************************************************************)
(* The validator specification: one order, validated once                  *)
(***************************************************************************)
Now0 == 1000         \* the first clock reading

Addresses == { "0xaddress", "0xbad" }
Amounts == { <<-1, 1>>, <<0, 1>>, <<1, 0>> }

\* outputs: a valid one, and ones with one or two defects
SampleOutputs ==
    { [token |-> "0xaddress", recipient |-> "0xaddress", startAmount |-> <<0, 2>>, endAmount |-> <<0, 1>>],
      [token |-> "0xbad", recipient |-> "0xaddress", startAmount |-> <<0, 1>>, endAmount |-> <<0, 2>>],
      [token |-> "0xaddress", recipient |-> "0xbad", startAmount |-> <<1, 0>>, endAmount |-> <<0, 1>>],
      [token |-> "0xaddress", recipient |-> "0xaddress", startAmount |-> <<1, 0>>, endAmount |-> <<1, 1>>],
      [token |-> "0xaddress", recipient |-> "0xaddress", startAmount |-> <<0, 1>>, endAmount |-> <<-1, 1>>],
      [token |-> "0xaddress", recipient |-> "0xaddress", startAmount |-> <<0, 1>>, endAmount |-> <<0, 2>>] }

OutputLists == UNION { [1..n -> SampleOutputs] : n \in 0..MaxOutputs }

Deadlines ==
    { Now0 + 30, Now0 + DefaultMinOffset - 1, Now0 + DefaultMinOffset, Now0 + DefaultMinOffset + 1,
      Now0 + ONE_YEAR_IN_SECONDS, Now0 + ONE_YEAR_IN_SECONDS + 1, Now0 + 366 * 24 * 60 * 60 }

\* the order under validation and the clock
ValidatorInput(d, st, n, of, re, it, ia, outs, hs, t) ==
    [order |-> [deadline |-> d, startTime |-> st, nonce |-> n, offerer |-> of, reactor |-> re,
                input |-> [token |-> it, amount |-> ia], outputs |-> outs, hash |-> hs],
     now |-> Now0, tick |-> t, minOffset |-> DefaultMinOffset]

ValidatorInit ==
    /\ orders = <<>>
    /\ nonces = <<>>
    /\ calls = <<>>
    /\ lastOp = NoOp
    /\ req = NoRequest
    /\ call = NoCall
    /\ res = NoResult
    /\ phase = "ready"
    /\ minted = NoIndex
    /\ seen = <<>>
    /\ \E d \in Deadlines, st \in {Now0, Now0 + 2 * ONE_YEAR_IN_SECONDS},
          n \in {<<0, 1>>, <<-1, 1>>}, of \in Addresses, re \in Addresses, it \in Addresses,
          ia \in Amounts, outs \in OutputLists, hs \in {"0xhash", "0xbadhash"}, t \in 0..MaxTick :
            vin = ValidatorInput(d, st, n, of, re, it, ia, outs, hs, t)
    /\ vout = <<>>

\* new OrderValidator(clock, minOffset).validate(order); the clock is read
\* twice and may have advanced by tick in between
Validate ==
    /\ phase = "ready"
    /\ vout' = validate(vin.order, vin.now, vin.now + vin.tick, vin.minOffset)
    /\ phase' = "validated"
    /\ UNCHANGED <<orders, nonces, calls, lastOp, req, call, res, minted, seen, vin>>

ValidatorNext == Validate

ValidatorSpec == ValidatorInit /\ [][ValidatorNext]_vars

(***************************************************************************)
(* Properties of the validator                                             *)
(***************************************************************************)
Validated == phase = "validated"

Reason(response) == IF response.valid THEN <<>> ELSE response.errorString

InsufficientDeadline == <<"Insufficient Deadline">>
DeadlineTooFar == <<"Deadline field invalid: Order expiry cannot be larger than one year">>

\* the nine checks on the order under validation, in the documented order
Checks ==
    << validateDeadline(vin.order.deadline, vin.now, vin.now + vin.tick, vin.minOffset),
       validateStartTime(vin.order.startTime, vin.order.deadline),
       validateNonce(vin.order.nonce),
       validateOfferer(vin.order.offerer),
       validateReactor(vin.order.reactor),
       validateInputToken(vin.order.input.token),
       validateInputAmount(vin.order.input.amount),
       validateOutputs(vin.order.outputs),
       validateHash(vin.order.hash) >>

\* C7: validate returns the failure of the earliest failing check in the
\* order deadline, startTime, nonce, offerer, reactor, input token, input
\* amount, outputs, hash, and valid with no reason only when all nine pass.
C7_FirstFailureWins ==
    Validated =>
        /\ \A i \in 1..9 :
              ((\A j \in 1..(i - 1) : Checks[j].valid) /\ ~Checks[i].valid) => vout = Checks[i]
        /\ vout.valid <=> (\A i \in 1..9 : Checks[i].valid)
        /\ vout.valid => DOMAIN vout = {"valid"}

C7_Witness ==
    /\ Validated
    /\ Checks[1].valid
    /\ ~Checks[2].valid
    /\ ~Checks[3].valid
    /\ ~Checks[9].valid
    /\ vout = Invalid(<<"Invalid startTime: startTime > deadline">>)

\* C8: against a single value of now, the deadline check fails as
\* insufficient exactly when deadline < now + minOffset, fails with the
\* one-year reason exactly when deadline > now + one year, and passes
\* otherwise.
C8_DeadlineBounds ==
    (Validated /\ vin.tick = 0) =>
        /\ Reason(vout) = InsufficientDeadline <=> vin.order.deadline < vin.now + vin.minOffset
        /\ Reason(vout) = DeadlineTooFar <=> vin.order.deadline > vin.now + 31536000
        /\ (vin.order.deadline = vin.now + 30 /\ vin.minOffset = 60) =>
              Reason(vout) = InsufficientDeadline
        /\ vin.order.deadline = vin.now + 366 * 86400 => Reason(vout) = DeadlineTooFar

C8_Witness ==
    /\ Validated
    /\ vin.tick = 0
    /\ vin.order.deadline = vin.now + 366 * 86400
    /\ Reason(vout) = DeadlineTooFar

\* the error of one output: token, recipient, startAmount range, endAmount
\* range, endAmount <= startAmount, in that order
InRange(v) == v[1] = 0
OutputError(o) ==
    IF o.token # "0xaddress" THEN <<"Invalid output token", o.token>>
    ELSE IF o.recipient # "0xaddress" THEN <<"Invalid recipient", o.recipient>>
    ELSE IF ~InRange(o.startAmount) THEN <<"Invalid startAmount", o.startAmount>>
    ELSE IF ~InRange(o.endAmount) THEN <<"Invalid endAmount", o.endAmount>>
    ELSE IF o.endAmount[2] > o.startAmount[2] THEN <<"Invalid endAmount > startAmount">>
    ELSE <<>>

\* C9: an order with an output whose endAmount exceeds its startAmount is
\* rejected, and when the checks before the outputs pass, the response is
\* the error of the first invalid output in list order.
C9_FirstInvalidOutput ==
    Validated =>
        LET outs == vin.order.outputs
        IN  /\ (\E i \in DOMAIN outs : BigGt(outs[i].endAmount, outs[i].startAmount)) => ~vout.valid
            /\ \A i \in DOMAIN outs :
                  ( /\ \A j \in 1..7 : Checks[j].valid
                    /\ \A j \in 1..(i - 1) : OutputError(outs[j]) = <<>>
                    /\ OutputError(outs[i]) # <<>> )
                  => vout = Invalid(OutputError(outs[i]))

C9_Witness ==
    /\ Validated
    /\ \A j \in 1..7 : Checks[j].valid
    /\ Len(vin.order.outputs) = 2
    /\ OutputError(vin.order.outputs[1]) = <<"Invalid endAmount > startAmount">>
    /\ OutputError(vin.order.outputs[2]) = <<"Invalid output token", "0xbad">>
    /\ vin.order.hash = "0xhash"
    /\ vout = Invalid(<<"Invalid endAmount > startAmount">>)

(***************************************************************************)
(* The repository specification: concurrent writers on the two tables      *)
(***************************************************************************)
MaxHashes == 2       \* order hashes 1..MaxHashes

Hashes == 1..MaxHashes
\* the concurrent callers of updateOrderStatus
Procs == { "p1" }
\* the values of currentTimestampInSeconds()
Times == { 1 }
Statuses == { "open", "filled" }

\* the order an order hash stands for: the first three are offerer A's, with
\* nonces 1, 2, 2; further orders are offerer B's
OrderOf(h) ==
    [orderHash |-> h,
     offerer |-> IF h <= 3 THEN "A" ELSE "B",
     filler |-> "F",
     orderStatus |-> "open",
     chainId |-> 1,
     nonce |-> IF h = 1 THEN 1 ELSE 2,
     deadline |-> 10,
     encodedOrder |-> "0xorder",
     signature |-> "0xsig"]

\* the optional arguments txHash and settledAmounts of updateOrderStatus
Extras == { <<>>, [txHash |-> "0xtx", settledAmounts |-> "settled"] }

\* the fields of the order read by getByHash that updateOrderStatus uses
ReadFields(item) == [k \in (DOMAIN item) \cap {"offerer", "filler", "chainId"} |-> item[k]]

\* the message of the error checkDefined throws in updateOrderStatus
OrderNotFound == "cannot find order by hash when updating order status"

\* checkDefined(value, message): the value, or an error with the message when
\* the value is undefined
checkDefined(value, message) ==
    IF value = <<>> THEN [ok |-> FALSE, error |-> message] ELSE [ok |-> TRUE, value |-> value]

\* updateOrderStatus using whatever getByHash returned, undefined included
orderToUpdate_unchecked(tbl, orderHash) ==
    [ok |-> TRUE,
     order |-> IF getByHash(tbl, orderHash) = <<>> THEN <<>> ELSE ReadFields(tbl[orderHash])]

\* updateOrderStatus: const order = checkDefined(await getByHash(orderHash), ...)
orderToUpdate(tbl, orderHash) ==
    LET found == checkDefined(getByHash(tbl, orderHash), OrderNotFound)
    IN  IF found.ok
        THEN [ok |-> TRUE, order |-> ReadFields(tbl[found.value[1]])]
        ELSE [ok |-> FALSE, error |-> found.error]

Idle == [pc |-> "idle"]

Init ==
    /\ orders = <<>>
    /\ nonces = <<>>
    /\ calls = [p \in Procs |-> Idle]
    /\ lastOp = NoOp
    /\ req = NoRequest
    /\ call = NoCall
    /\ res = NoResult
    /\ phase = "ready"
    /\ minted = NoIndex
    /\ seen = <<>>
    /\ vin = <<>>
    /\ vout = <<>>

ReadSide == <<req, call, res, phase, minted, seen, vin, vout>>

\* putOrderAndUpdateNonceTransaction(order): the transaction commits or fails
PutOrderAndUpdateNonce ==
    \E h \in Hashes, now \in Times, committed \in BOOLEAN :
        LET after == putOrderAndUpdateNonceTransaction(orders, nonces, OrderOf(h), now, committed)
        IN  /\ orders' = after.orders
            /\ nonces' = after.nonces
            /\ lastOp' = [op |-> "put", order |-> OrderOf(h), ok |-> committed]
            /\ UNCHANGED <<calls, ReadSide>>

\* updateOrderStatus up to its first await: getByHash finds the order
UpdateRead ==
    \E p \in Procs, h \in Hashes, status \in Statuses, extras \in Extras :
        /\ calls[p] = Idle
        /\ orderToUpdate(orders, h).ok
        /\ calls' = [calls EXCEPT ![p] = [pc |-> "update", orderHash |-> h, status |-> status,
                                          extras |-> extras,
                                          order |-> orderToUpdate(orders, h).order]]
        /\ lastOp' = [op |-> "getByHash", ok |-> TRUE]
        /\ UNCHANGED <<orders, nonces, ReadSide>>

\* updateOrderStatus: getByHash finds nothing and checkDefined throws
UpdateNotFound ==
    \E p \in Procs, h \in Hashes :
        /\ calls[p] = Idle
        /\ ~orderToUpdate(orders, h).ok
        /\ lastOp' = [op |-> "updateOrderStatus", ok |-> FALSE,
                      error |-> orderToUpdate(orders, h).error]
        /\ UNCHANGED <<orders, nonces, calls, ReadSide>>

\* updateOrderStatus after getByHash: entity.update with the attributes
\* computed from the order read before
UpdateWrite ==
    \E p \in Procs :
        /\ calls[p].pc = "update"
        /\ orders' = StoreUpdate(orders, StatusUpdate(calls[p].orderHash, calls[p].order,
                                                      calls[p].status, calls[p].extras))
        /\ calls' = [calls EXCEPT ![p] = Idle]
        /\ lastOp' = [op |-> "updateOrderStatus", ok |-> TRUE]
        /\ UNCHANGED <<nonces, ReadSide>>

\* updateOrderStatus: entity.update fails and the error is rethrown
UpdateWriteFails ==
    \E p \in Procs :
        /\ calls[p].pc = "update"
        /\ calls' = [calls EXCEPT ![p] = Idle]
        /\ lastOp' = [op |-> "updateOrderStatus", ok |-> FALSE, error |-> "StorageError"]
        /\ UNCHANGED <<orders, nonces, ReadSide>>

\* deleteOrders(orderHashes)
DeleteOrders ==
    \E hs \in (SUBSET Hashes) \ {{}} :
        /\ orders' = deleteOrders(orders, hs)
        /\ lastOp' = [op |-> "deleteOrders", ok |-> TRUE]
        /\ UNCHANGED <<nonces, calls, ReadSide>>

Next ==
    \/ PutOrderAndUpdateNonce
    \/ UpdateRead
    \/ UpdateNotFound
    \/ UpdateWrite
    \/ UpdateWriteFails
    \/ DeleteOrders

Spec == Init /\ [][Next]_vars

(***************************************************************************)
(* Properties of the writes                                                *)
(***************************************************************************)
\* the order is in the table as the call put it
OrderPresent(tbl, order) ==
    /\ order.orderHash \in DOMAIN tbl
    /\ \A k \in DOMAIN order : k \in DOMAIN tbl[order.orderHash] /\ tbl[order.orderHash][k] = order[k]

\* the nonce record of the order's offerer and chain holds the order's nonce
NoncePresent(nonceTbl, order) ==
    /\ <<order.offerer, NumStr(order.chainId)>> \in DOMAIN nonceTbl
    /\ nonceTbl[<<order.offerer, NumStr(order.chainId)>>] = order.nonce

\* C10: a call of putOrderAndUpdateNonceTransaction leaves the order and
\* the nonce update both written, or, when it fails, both tables as they
\* were; whatever other calls are in flight.
C10_AtomicPut ==
    [][ lastOp'.op = "put" =>
           \/ /\ lastOp'.ok
              /\ OrderPresent(orders', lastOp'.order)
              /\ NoncePresent(nonces', lastOp'.order)
           \/ /\ ~lastOp'.ok
              /\ orders' = orders
              /\ nonces' = nonces ]_vars

C10_Witness ==
    /\ lastOp.op = "put"
    /\ ~lastOp.ok
    /\ \E p \in Procs : calls[p].pc = "update"
    /\ \E h \in DOMAIN orders : ~NoncePresent(nonces, orders[h])

(***************************************************************************)
(* Writes without deleteOrders: putOrderAndUpdateNonceTransaction and       *)
(* updateOrderStatus only                                                  *)
(***************************************************************************)
PutUpdateNext ==
    \/ PutOrderAndUpdateNonce
    \/ UpdateRead
    \/ UpdateNotFound
    \/ UpdateWrite
    \/ UpdateWriteFails

PutUpdateSpec == Init /\ [][PutUpdateNext]_vars

\* the seven composite attributes of an item are the joins of its own
\* offerer, filler, chainId and orderStatus
CompositesConsistent(o) ==
    /\ o.offerer_orderStatus = <<o.offerer, o.orderStatus>>
    /\ o.filler_orderStatus = <<o.filler, o.orderStatus>>
    /\ o.filler_offerer = <<o.filler, o.offerer>>
    /\ o.chainId_filler = <<NumStr(o.chainId), o.filler>>
    /\ o.chainId_orderStatus = <<NumStr(o.chainId), o.orderStatus>>
    /\ o.chainId_orderStatus_filler = <<NumStr(o.chainId), o.orderStatus, o.filler>>
    /\ o.filler_offerer_orderStatus = <<o.filler, o.offerer, o.orderStatus>>

\* C11: whatever puts and status updates have run, in whatever
\* interleaving, every stored order carries all seven composite attributes
\* and each equals the join, in the order its name declares, of the order's
\* current offerer, filler, chainId and orderStatus.
C11_CompositesConsistent ==
    \A h \in DOMAIN orders :
        /\ { "offerer", "filler", "chainId", "orderStatus",
             "offerer_orderStatus", "filler_orderStatus", "filler_offerer",
             "chainId_filler", "chainId_orderStatus", "chainId_orderStatus_filler",
             "filler_offerer_orderStatus" } \subseteq DOMAIN orders[h]
        /\ CompositesConsistent(orders[h])

\* a status update has moved an order to filled, recording the transaction
C11_Witness ==
    /\ lastOp = [op |-> "updateOrderStatus", ok |-> TRUE]
    /\ \E h \in DOMAIN orders :
          /\ orders[h].orderStatus = "filled"
          /\ "txHash" \in DOMAIN orders[h]
          /\ orders[h].chainId_orderStatus_filler = <<"1", "filled", "F">>

\* no two stored orders of one offerer and chain carry the same nonce
NoncesUnique(tbl) ==
    \A a, b \in DOMAIN tbl :
        (a # b /\ tbl[a].offerer = tbl[b].offerer /\ tbl[a].chainId = tbl[b].chainId)
            => tbl[a].nonce # tbl[b].nonce

\* C12: over any sequence of putOrderAndUpdateNonceTransaction calls the
\* nonce record of every (offerer, chainId) stays and never goes back to a
\* smaller nonce, and no two stored orders of the same (offerer, chainId)
\* have the same nonce.
C12_NonceAdvances ==
    [][ /\ \A k \in DOMAIN nonces : k \in DOMAIN nonces' /\ nonces'[k] >= nonces[k]
        /\ NoncesUnique(orders') ]_vars

\* the outcome of an updateOrderStatus call that failed with the not-found
\* error
NotFoundFailure == [op |-> "updateOrderStatus", ok |-> FALSE, error |-> OrderNotFound]

\* C13: an updateOrderStatus call whose order hash has no record never gets
\* past its lookup to the write, and the call that fails with the not-found
\* error leaves both tables as they were: no record created or modified.
C13_NotFoundLeavesStore ==
    [][ /\ \A p \in Procs :
              (calls[p] = Idle /\ calls'[p] # Idle) => calls'[p].orderHash \in DOMAIN orders
        /\ lastOp' = NotFoundFailure => (orders' = orders /\ nonces' = nonces) ]_vars

\* the call failed on a hash deleteOrders had removed, next to a stored order
C13_Witness ==
    /\ lastOp = NotFoundFailure
    /\ DOMAIN orders = {1}
    /\ NoncePresent(nonces, OrderOf(2))

(***************************************************************************)
(* The cursor specification: getOrders called with a cursor the caller      *)
(* built from a continuation key of its own                                *)
(***************************************************************************)
\* the partition attributes of the indexes the router queries
PartitionAttrs ==
    { CompositeCases[i][2] : i \in DOMAIN CompositeCases }
      \cup { SingleCases[i] : i \in DOMAIN SingleCases }

\* attribute names a caller may add to a key
ExtraFields == { "nonce", "createdAt", "deadline" }

\* the field sets of the keys: those of an index, with one field removed,
\* or with one field added
KeyFieldSets ==
    UNION { LET exact == {"orderHash", pa, sf}
            IN  {exact} \cup { exact \ {f} : f \in exact }
                        \cup { exact \cup {f} : f \in ExtraFields \ exact } :
            pa \in PartitionAttrs, sf \in SORT_FIELDS }

\* Object.keys of a key with the fields F, in every order
KeyOrders(F) ==
    { ks \in [1..Cardinality(F) -> F] : \A i, j \in 1..Cardinality(F) : ks[i] = ks[j] => i = j }

\* the continuation keys the callers build
CursorKeys ==
    { [keys |-> ks, hash |-> 2, pk |-> "pk", sk |-> 2] :
        ks \in UNION { KeyOrders(F) : F \in KeyFieldSets } }

CursorRequests ==
    { [limit |-> 0, queryFilters |-> Filters(K, 1, sk, NoSort, 0),
       cursor |-> encode(JSONstringify(k)), key |-> k] :
        K \in TemplateSets, sk \in SORT_FIELDS \cup {""}, k \in CursorKeys }

CursorInit ==
    /\ orders = SampleTable
    /\ nonces = <<>>
    /\ calls = <<>>
    /\ lastOp = NoOp
    /\ req \in CursorRequests
    /\ call = NoCall
    /\ res = NoResult
    /\ phase = "ready"
    /\ minted = NoIndex
    /\ seen = <<>>
    /\ vin = <<>>
    /\ vout = <<>>

CursorNext == GetOrders

CursorSpec == CursorInit /\ [][CursorNext]_vars

\* the fields a key of the index the request was routed to must have
ExpectedFields == {"orderHash", res.index[1], res.index[2]}

\* C14: for a request routed to an index and a cursor that is the encoding
\* of a key, when the key's fields are exactly orderHash and the index's
\* partition and sort attributes the cursor is accepted and the key handed
\* to the store is that key; when the key has one of these fields missing,
\* or one field more, the call fails with the invalid-cursor error and no
\* query is issued.
C14_CursorRoundTrip ==
    (phase = "done" /\ "key" \in DOMAIN req) =>
        LET fields == Range(req.key.keys)
        IN  /\ fields = ExpectedFields =>
                  /\ res.status = "ok"
                  /\ call.kind = "query"
                  /\ call.q.startKey = req.key
            /\ (\/ \E f \in ExpectedFields : fields = ExpectedFields \ {f}
                \/ \E f \in ExtraFields \ ExpectedFields : fields = ExpectedFields \cup {f}) =>
                  /\ res.status = "InvalidCursor"
                  /\ call = NoCall

\* a key of a composite index sorted by deadline, its fields in another
\* order than the store's, came back unchanged as the query's start key
C14_Witness ==
    /\ phase = "done"
    /\ "key" \in DOMAIN req
    /\ req.key.keys = <<"deadline", "chainId_orderStatus_filler", "orderHash">>
    /\ res.index = <<"chainId_orderStatus_filler", "deadline", "all">>
    /\ res.status = "ok"
    /\ call.q.startKey = req.key

(***************************************************************************)
(* The get-orders handler (lib/handlers/get-orders/handler): request        *)
(* validation, the repository call, the response                           *)
(***************************************************************************)
\* enum ORDER_STATUS
ORDER_STATUS == { "open", "filled", "cancelled", "expired", "error", "unverified" }

\* the texts the request schema accepts as a number
NumberTexts == { "1", "10" }

\* the request schema: the message of each query parameter that fails it
RequestErrors(queryStringParameters) ==
    LET q == queryStringParameters
        has(k) == k \in DOMAIN q
    IN  (IF has("orderHash") /\ OrderHashError(q["orderHash"]) # ""
         THEN {"orderHash fails to match the required pattern"} ELSE {})
        \cup (IF has("offerer") /\ EthAddressError(q["offerer"]) # ""
              THEN {"offerer failed custom validation because invalid address"} ELSE {})
        \cup (IF has("orderStatus") /\ q["orderStatus"] \notin ORDER_STATUS
              THEN {"orderStatus must be one of [open, filled, cancelled, expired, error, unverified]"}
              ELSE {})
        \cup (IF has("sellToken") /\ EthAddressError(q["sellToken"]) # ""
              THEN {"sellToken failed custom validation because invalid address"} ELSE {})
        \cup (IF has("limit") /\ q["limit"] \notin NumberTexts
              THEN {"limit must be a number"} ELSE {})

\* request validation that does not look at sellToken
parseAndValidateRequest_noSellToken(queryStringParameters) ==
    LET errors == RequestErrors([k \in (DOMAIN queryStringParameters) \ {"sellToken"} |->
                                   queryStringParameters[k]])
    IN  IF errors = {} THEN [valid |-> TRUE]
        ELSE [valid |-> FALSE,
              response |-> [statusCode |-> 400, errorCode |-> "VALIDATION_ERROR", detail |-> errors]]

\* the handler's request validation: the 400 response when a query
\* parameter fails the schema
parseAndValidateRequest(queryStringParameters) ==
    LET errors == RequestErrors(queryStringParameters)
    IN  IF errors = {} THEN [valid |-> TRUE]
        ELSE [valid |-> FALSE,
              response |-> [statusCode |-> 400, errorCode |-> "VALIDATION_ERROR", detail |-> errors]]

\* the response schema: does a returned order have the fields of an order
ResponseOrderValid(item) ==
    /\ {"orderHash", "orderStatus", "offerer", "signature", "encodedOrder", "createdAt"}
           \subseteq DOMAIN item
    /\ item.orderStatus \in ORDER_STATUS

\* handleRequest: dbInterface.getOrders(limit, queryFilters) with the injected
\* request, then the response: 200 with the orders, 500 when the repository
\* throws or a returned order fails the response schema
handleRequest(tbl, requestInjected) ==
    LET result == getOrders(tbl, requestInjected.limit, requestInjected.queryFilters, NoCursor)
    IN  [call |-> [kind |-> "getOrders", limit |-> requestInjected.limit,
                   queryFilters |-> requestInjected.queryFilters],
         response |->
             IF result.status # "ok"
             THEN [statusCode |-> 500, errorCode |-> result.status, detail |-> {}]
             ELSE IF \E i \in DOMAIN result.orders : ~ResponseOrderValid(tbl[result.orders[i]])
             THEN [statusCode |-> 500, errorCode |-> "INTERNAL_ERROR", detail |-> {}]
             ELSE [statusCode |-> 200, orders |-> result.orders]]

\* the values a query parameter takes: a well-formed one and the malformed
\* one of the handler's test
ParamValues(k) ==
    CASE k = "orderHash" -> { "0xhash", "0xbad_hash" }
      [] k = "offerer" -> { "0xaddress", "0xbad_address" }
      [] k = "orderStatus" -> { "open", "bad_status" }
      [] k = "sellToken" -> { "0xaddress", "0xcorn" }
      [] OTHER -> { "1", "bad_limit" }

QueryParams == { "orderHash", "offerer", "orderStatus", "sellToken", "limit" }

\* event.queryStringParameters
Events ==
    UNION { { q \in [K -> UNION { ParamValues(k) : k \in K }] : \A k \in K : q[k] \in ParamValues(k) } :
            K \in SUBSET QueryParams }

\* what the injector hands the handler: a limit and the query filters
InjectedRequests ==
    { [limit |-> l, queryFilters |-> Filters(K, 1, "", NoSort, 0)] :
        l \in { 0, 1, 10 },
        K \in { {"offerer"}, {"offerer", "orderStatus"}, {"offerer", "sellToken", "orderStatus"} } }

HandlerInit ==
    /\ orders = SampleTable
    /\ nonces = <<>>
    /\ calls = <<>>
    /\ lastOp = NoOp
    /\ req \in { [queryStringParameters |-> q, requestInjected |-> r] :
                    q \in Events, r \in InjectedRequests }
    /\ call = NoCall
    /\ res = NoResult
    /\ phase = "ready"
    /\ minted = NoIndex
    /\ seen = <<>>
    /\ vin = <<>>
    /\ vout = <<>>

\* the handler up to its first await: the request is validated, and
\* answered when it is invalid
ValidateRequest ==
    /\ phase = "ready"
    /\ LET v == parseAndValidateRequest(req.queryStringParameters)
       IN  IF v.valid
           THEN phase' = "validated" /\ res' = res
           ELSE phase' = "responded" /\ res' = v.response
    /\ UNCHANGED <<orders, nonces, calls, lastOp, req, call, minted, seen, vin, vout>>

\* the handler after validation: the repository call and the response
HandleRequest ==
    /\ phase = "validated"
    /\ LET h == handleRequest(orders, req.requestInjected)
       IN  call' = h.call /\ res' = h.response
    /\ phase' = "responded"
    /\ UNCHANGED <<orders, nonces, calls, lastOp, req, minted, seen, vin, vout>>

HandlerNext == ValidateRequest \/ HandleRequest

HandlerSpec == HandlerInit /\ [][HandlerNext]_vars

\* the malformed parameter values
BadValues == { "0xbad_hash", "0xbad_address", "bad_status", "0xcorn", "bad_limit" }

\* the request has a malformed query parameter
RequestInvalid ==
    \E k \in DOMAIN req.queryStringParameters : req.queryStringParameters[k] \in BadValues

PrimaryFields == { "offerer", "chainId", "nonce", "encodedOrder", "signature" }

\* every record of the table has its primary fields, as put
NoPartialRecord(tbl) ==
    \A h \in DOMAIN tbl :
        \A k \in PrimaryFields : k \in DOMAIN tbl[h] /\ tbl[h][k] = OrderOf(h)[k]

\* C16: however the steps of updateOrderStatus and deleteOrders on an order
\* hash interleave, every record in the orders table has the primary fields
\* (offerer, chainId, nonce, encodedOrder, signature) it was created with,
\* and a record that is absent comes back only through a put, never through
\* the write of an updateOrderStatus that read it before it was deleted.
C16_NoPartialRecord ==
    [][ /\ NoPartialRecord(orders')
        /\ \A h \in Hashes :
              (h \notin DOMAIN orders /\ h \in DOMAIN orders') => lastOp'.op = "put" ]_vars

====
